---- MODULE Spec2Model ----
(***************************************************************************)
(* Credential store of OPNManager (src-tauri/src/db.rs, pin_cache.rs,      *)
(* commands.rs): the SQLite tables app_settings / api_info / api_info_new, *)
(* the Database-owned PinCache, the application-managed PinCache, and the  *)
(* Tauri commands that drive them.  Every command is one atomic action,    *)
(* except in SpecThreads, SpecMigration and SpecPinChange.                 *)
(*                                                                         *)
(* Spec: the commands on a storage that never fails.  Constraint failures  *)
(* (PRIMARY KEY, UNIQUE, missing table) are computed from the tables.      *)
(* SpecFaults: in addition an SQL statement of complete_migration or of    *)
(* update_pin may fail with a storage error (the code maps each of them    *)
(* with map_err): at most one such fault per command invocation and        *)
(* MaxFaults per behaviour.                                                *)
(* SpecFresh: Spec from a fresh data directory only.  SpecProfiles: the    *)
(* profile commands alone.  SpecSession: Spec with set_pin and clear_pin.  *)
(* SpecPrefs: the dashboard preferences of the default profile with the    *)
(* profile commands that leave api_info rows in place or delete them.      *)
(* SpecPin: the PIN commands, the arguments of update_pin on record.       *)
(* SpecThreads: the commands of the main thread interleaved with the       *)
(* commands of the async runtime, one step per lock of conn.               *)
(* SpecMigration: complete_migration inside verify_pin, one step per lock  *)
(* of conn, interleaved with saves of the async runtime and restarts.      *)
(* SpecPinChange: update_pin, one step per lock once the current PIN is    *)
(* verified, interleaved with reads of the async runtime.                  *)
(* SpecRoundTrip: saves with their arguments on record, reads and the PIN  *)
(* commands.  SpecIntegrity: the commands that write api_info or           *)
(* dashboard_preferences, on a build of SQLite that enforces foreign keys  *)
(* and on one that does not; everywhere else enforcement is off, no        *)
(* preference row being written or no referenced profile row removed.      *)
(***************************************************************************)
EXTENDS Integers, FiniteSets, Sequences, TLC

----------------------------------------------------------------------------
\* Bounds of the model

\* largest rowid api_info may hand out
MaxId == 2
\* storage faults injected in one behaviour
MaxFaults == 1
\* number of distinct values thread_rng() may give the nonces
NumNonces == 2

\* longest preference list a save_dashboard_preferences call is given
MaxPrefs == 1
\* largest rowid dashboard_preferences may hand out
MaxPrefId == 3

\* a command invocation draws one of these; every nonce of the invocation
\* takes the value drawn
Seeds == 1..NumNonces

\* ORDER BY profile_name order of the profile names used
NameOrder == <<"backup", "main">>
ProfileNames == {NameOrder[i] : i \in 1..Len(NameOrder)}
Pins == {"1234", "5678"}
ApiKeys == {"k1", "k2"}
ApiSecrets == {"s1"}
Urls == {"http://fw"}
Ports == {443}
WidgetKeys == {"cpu"}
Positions == {0}

\* Option::None of Option<String>
None == "None"

----------------------------------------------------------------------------
\* Password/PIN hasher and symmetric cipher wrapper

\* Argon2 PHC string: the salt (one possible draw of OsRng) is embedded, the
\* digest depends on password and salt
hash_password(password) ==
    [alg |-> "argon2id", salt |-> "c2FsdA", digest |-> <<password, "c2FsdA">>]

verify_password(hash, password) ==
    hash.digest = <<password, hash.salt>>

\* SaltString::generate(&mut OsRng).to_string(): never the empty string
SaltString_generate == "cGluc2FsdA"

\* SaltString::from_b64 rejects the empty string
derive_encryption_key(pin, salt) ==
    IF salt = ""
    THEN [ok |-> FALSE, key |-> <<>>]
    ELSE [ok |-> TRUE, key |-> <<"argon2", pin, salt>>]

Sha256(pin) == <<"sha256", pin>>

\* the i-th 12-byte nonce drawn by thread_rng() in a command invocation
Nonce(seed, i) == <<"nonce", seed>>

\* a cipher keyed by the Argon2 key of the session instead of Sha256(pin): on
\* it C25_RoundTrip fails
encrypt_string_session_key(plaintext, pin, nonce) ==
    [ciphertext |-> [key |-> <<"argon2", pin>>, nonce |-> nonce, pt |-> plaintext],
     nonce |-> nonce]

\* ChaCha20Poly1305: returns (ciphertext, nonce_bytes)
encrypt_string(plaintext, pin, nonce) ==
    [ciphertext |-> [key |-> Sha256(pin), nonce |-> nonce, pt |-> plaintext],
     nonce |-> nonce]

\* a cipher without a tag, which hands back the plaintext under any key: on
\* it C24_WrongPinReadsBlank fails
decrypt_string_unauthenticated(ciphertext, nonce_bytes, pin) ==
    [ok |-> TRUE, plaintext |-> ciphertext.pt]

\* the tag verifies only under the same key and nonce
decrypt_string(ciphertext, nonce_bytes, pin) ==
    IF ciphertext.key = Sha256(pin) /\ ciphertext.nonce = nonce_bytes
    THEN [ok |-> TRUE, plaintext |-> ciphertext.pt]
    ELSE [ok |-> FALSE, plaintext |-> ""]

----------------------------------------------------------------------------
\* SQLite helpers

Max(S) == CHOOSE x \in S : \A y \in S : y <= x

\* rowid given to a row inserted without an id: largest rowid + 1
NewRowid(rows) == IF rows = {} THEN 1 ELSE Max({r.id : r \in rows}) + 1

RECURSIVE SeqById(_)
\* rows in rowid order (a SELECT without ORDER BY on a rowid table)
SeqById(rows) ==
    IF rows = {} THEN <<>>
    ELSE LET m == CHOOSE r \in rows : \A q \in rows : r.id <= q.id
         IN  <<m>> \o SeqById(rows \ {m})

NameIndex(name) == CHOOSE i \in 1..Len(NameOrder) : NameOrder[i] = name

RECURSIVE SeqByName(_)
\* rows in ORDER BY profile_name order
SeqByName(rows) ==
    IF rows = {} THEN <<>>
    ELSE LET m == CHOOSE r \in rows :
                    \A q \in rows : NameIndex(r.profile_name) <= NameIndex(q.profile_name)
         IN  <<m>> \o SeqByName(rows \ {m})

NoTable == [shape |-> "none", rows |-> {}]
NoNewTable == [exists |-> FALSE, rows |-> {}]

UnencRow(id, info, is_default) ==
    [id |-> id, profile_name |-> info.profile_name, api_key |-> info.api_key,
     api_secret |-> info.api_secret, api_url |-> info.api_url, port |-> info.port,
     is_default |-> is_default]

EncRow(id, info, k, s, is_default) ==
    [id |-> id, profile_name |-> info.profile_name,
     encrypted_api_key |-> k.ciphertext, api_key_nonce |-> k.nonce,
     encrypted_api_secret |-> s.ciphertext, api_secret_nonce |-> s.nonce,
     api_url |-> info.api_url, port |-> info.port, is_default |-> is_default]

ApiInfo(id, name, key, secret, url, port, is_default) ==
    [id |-> id, profile_name |-> name, api_key |-> key, api_secret |-> secret,
     api_url |-> url, port |-> port, is_default |-> is_default]

----------------------------------------------------------------------------
\* Database (db.rs).  db = [conn, pin_cache, current_pin_key];
\* conn = [first_run, app_settings, api_info, api_info_new, dashboard_preferences]

PinCache_new == None

\* the tables of a store that was never set up, after initialize_tables
\* foreign_keys: whether the SQLite build enforces the FOREIGN KEY clause of
\* dashboard_preferences; the code sets no PRAGMA foreign_keys, so the
\* default of the build applies
EmptyConn ==
    [first_run |-> FALSE, app_settings |-> {}, api_info |-> NoTable,
     api_info_new |-> NoNewTable, dashboard_preferences |-> {},
     foreign_keys |-> FALSE]

\* a statement that deletes the api_info rows with the ids `ids` fails when
\* foreign keys are enforced and a dashboard_preferences row references one
ForeignKeyViolation(conn, ids) ==
    conn.foreign_keys /\ \E d \in conn.dashboard_preferences : d.profile_id \in ids

\* Database::migrate_data, run by Database::new at every start: CREATE TABLE
\* api_info_new (no IF NOT EXISTS) whenever api_info is in the plaintext shape
migrate_data(conn) ==
    LET has_api_key_column == conn.api_info.shape = "unenc"
        has_encrypted_api_key_column == conn.api_info.shape = "enc"
    IN  IF has_api_key_column /\ ~has_encrypted_api_key_column
        THEN IF conn.api_info_new.exists
             THEN [ok |-> FALSE, conn |-> conn]
             ELSE [ok |-> TRUE,
                   conn |-> [conn EXCEPT !.api_info_new = [exists |-> TRUE, rows |-> {}]]]
        ELSE [ok |-> TRUE, conn |-> conn]

\* a cache that hands out the empty PIN when it holds none: on it
\* C17_SaveNeedsCachedPin fails
get_cached_pin_or_empty(db) ==
    [ok |-> TRUE, pin |-> IF db.pin_cache # None THEN db.pin_cache ELSE ""]

\* Database::get_cached_pin
get_cached_pin(db) ==
    IF db.pin_cache # None
    THEN [ok |-> TRUE, pin |-> db.pin_cache]
    ELSE [ok |-> FALSE, pin |-> None]

RECURSIVE InsertEncrypted(_, _, _, _, _, _)
\* the for loop of complete_migration: the k-th profile of `profiles` is
\* encrypted and inserted into api_info_new with its id; the INSERT fails on
\* a storage fault or when the id or the profile_name is already there
InsertEncrypted(profiles, k, new_rows, pin, seed, fault) ==
    IF k > Len(profiles) THEN [ok |-> TRUE, fired |-> FALSE, rows |-> new_rows]
    ELSE LET p == profiles[k]
             key == encrypt_string(p.api_key, pin, Nonce(seed, 2 * k - 1))
             sec == encrypt_string(p.api_secret, pin, Nonce(seed, 2 * k))
             conflict == \E r \in new_rows :
                            r.id = p.id \/ r.profile_name = p.profile_name
         IN  IF fault = <<"insert", k>> \/ conflict
             THEN [ok |-> FALSE, fired |-> (fault = <<"insert", k>>), rows |-> new_rows]
             ELSE InsertEncrypted(profiles, k + 1,
                                  new_rows \cup {EncRow(p.id, p, key, sec, p.is_default)},
                                  pin, seed, fault)

\* the storage faults that can hit a run of complete_migration on `conn`
MigrationFaults(conn) ==
    IF conn.api_info.shape # "unenc" THEN {}
    ELSE {<<"salt">>, <<"read">>, <<"drop">>, <<"rename">>}
         \cup (IF conn.api_info_new.exists THEN {} ELSE {<<"create">>})
         \cup {<<"insert", k>> : k \in 1..Cardinality(conn.api_info.rows)}

\* a head check that looks only for the table: on it C10_SecondRunNoOp fails,
\* the run goes on to create api_info_new on an encrypted store
MigrationNeeded_any_table(conn) == conn.api_info.shape # "none"

\* the check at the head of complete_migration: nothing to do when api_info
\* is already encrypted or has no plaintext columns (no table)
MigrationNeeded(conn) ==
    LET has_api_key_column == conn.api_info.shape = "unenc"
        has_encrypted_api_key_column == conn.api_info.shape = "enc"
    IN  ~(has_encrypted_api_key_column \/ ~has_api_key_column)

\* complete_migration from DROP TABLE api_info on; `created` is the store
\* with api_info_new in place and `loop` the outcome of the INSERT loop
swap_tables(db, created, loop, fault) ==
    LET c3 == [created EXCEPT !.api_info_new.rows = loop.rows]
        c4 == [c3 EXCEPT !.api_info = NoTable]
        c5 == [c4 EXCEPT !.api_info = [shape |-> "enc", rows |-> loop.rows],
                         !.api_info_new = NoNewTable]
        Err(hit, conn_now) ==
            [ok |-> FALSE, noop |-> FALSE, fired |-> hit, db |-> [db EXCEPT !.conn = conn_now]]
    IN  IF ~loop.ok THEN Err(loop.fired, c3)
        ELSE IF fault = <<"drop">> THEN Err(TRUE, c3)
        ELSE IF ForeignKeyViolation(c3, {r.id : r \in c3.api_info.rows}) THEN Err(FALSE, c3)
        ELSE IF fault = <<"rename">> THEN Err(TRUE, c4)
        ELSE [ok |-> TRUE, noop |-> FALSE, fired |-> FALSE, db |-> [db EXCEPT !.conn = c5]]

\* Database::complete_migration.  noop: it returned at the head check
complete_migration(db, pin, seed, fault) ==
    LET c == db.conn
        has_api_info_new == c.api_info_new.exists
        \* SELECT api_key, api_secret ... FROM api_info needs the plaintext table
        readable == c.api_info.shape = "unenc"
        salt_exists == \E a \in c.app_settings : a.pin_salt # ""
        c1 == IF salt_exists THEN c
              ELSE [c EXCEPT !.app_settings =
                       {[a EXCEPT !.pin_salt = SaltString_generate] : a \in @}]
        c2 == IF has_api_info_new THEN c1
              ELSE [c1 EXCEPT !.api_info_new = [exists |-> TRUE, rows |-> {}]]
        Err(hit, conn_now) ==
            [ok |-> FALSE, noop |-> FALSE, fired |-> hit, db |-> [db EXCEPT !.conn = conn_now]]
    IN  IF ~MigrationNeeded(c)
        THEN [ok |-> TRUE, noop |-> TRUE, fired |-> FALSE, db |-> db]
        ELSE IF fault = <<"salt">> THEN Err(TRUE, c)
        ELSE IF ~has_api_info_new /\ fault = <<"create">> THEN Err(TRUE, c1)
        ELSE IF fault = <<"read">> \/ ~readable THEN Err(fault = <<"read">>, c2)
        ELSE swap_tables(db, c2,
                         InsertEncrypted(SeqById(c.api_info.rows), 1, c.api_info_new.rows,
                                         pin, seed, fault),
                         fault)

\* what verify_pin sees of its complete_migration call
MigOutcome(m) == IF ~m.ok THEN "err" ELSE IF m.noop THEN "noop" ELSE "ok"

\* verify_pin after its complete_migration call returned `m`: the key is
\* derived from the salt read before the call
derive_after_migration(m, pin, salt) ==
    LET key == derive_encryption_key(pin, salt)
    IN  IF ~key.ok
        THEN [ret |-> "err", mig |-> MigOutcome(m), fired |-> m.fired, db |-> m.db]
        ELSE [ret |-> "true", mig |-> MigOutcome(m), fired |-> m.fired,
              db |-> [m.db EXCEPT !.current_pin_key = {key.key}]]

\* a verify_pin that caches the PIN before it looks at the result of
\* verify_password: on it C14_WrongPinChangesNothing fails
verify_pin_caches_first(db, pin, seed, fault) ==
    IF db.conn.app_settings = {}
    THEN [ret |-> "false", mig |-> "none", fired |-> FALSE, db |-> db]
    ELSE LET row == CHOOSE a \in db.conn.app_settings : TRUE
             result == verify_password(row.password_hash, pin)
             salt == row.pin_salt
         IN  IF ~result
             THEN [ret |-> "false", mig |-> "none", fired |-> FALSE,
                   db |-> [db EXCEPT !.pin_cache = pin]]
             ELSE derive_after_migration(
                      complete_migration([db EXCEPT !.pin_cache = pin], pin, seed, fault),
                      pin, salt)

\* Database::verify_pin.  ret: "true" | "false" | "err"; mig: outcome of the
\* complete_migration call ("none" when not called); fired: the storage
\* fault happened
verify_pin(db, pin, seed, fault) ==
    IF db.conn.app_settings = {}
    THEN [ret |-> "false", mig |-> "none", fired |-> FALSE, db |-> db]
    ELSE LET row == CHOOSE a \in db.conn.app_settings : TRUE
             result == verify_password(row.password_hash, pin)
             salt == row.pin_salt
         IN  IF ~result
             THEN [ret |-> "false", mig |-> "none", fired |-> FALSE, db |-> db]
             ELSE derive_after_migration(
                      complete_migration([db EXCEPT !.pin_cache = pin], pin, seed, fault),
                      pin, salt)

\* a verify_pin that leaves the store's own cache alone, as if the write to
\* the application's PinCache in the command were the only one: on it
\* C15_VerifiedPinVisible fails
verify_pin_check_no_cache(db, pin) ==
    IF db.conn.app_settings = {}
    THEN [ret |-> "false", salt |-> "", db |-> db]
    ELSE LET row == CHOOSE a \in db.conn.app_settings : TRUE
         IN  IF ~verify_password(row.password_hash, pin)
             THEN [ret |-> "false", salt |-> "", db |-> db]
             ELSE [ret |-> "true", salt |-> row.pin_salt, db |-> db]

\* Database::verify_pin while it holds the lock it took on entry, up to
\* drop(conn): the check of the hash, pin_cache.set_pin, the read of pin_salt
verify_pin_check(db, pin) ==
    IF db.conn.app_settings = {}
    THEN [ret |-> "false", salt |-> "", db |-> db]
    ELSE LET row == CHOOSE a \in db.conn.app_settings : TRUE
         IN  IF ~verify_password(row.password_hash, pin)
             THEN [ret |-> "false", salt |-> "", db |-> db]
             ELSE [ret |-> "true", salt |-> row.pin_salt,
                   db |-> [db EXCEPT !.pin_cache = pin]]

\* Database::save_initial_api_info
save_initial_api_info(conn, api_info) ==
    LET table_exists == conn.api_info.shape # "none"
        has_encrypted_columns == conn.api_info.shape = "enc"
        \* DROP TABLE api_info when encrypted, then CREATE TABLE IF NOT EXISTS
        rows == IF table_exists /\ ~has_encrypted_columns THEN conn.api_info.rows ELSE {}
        unique_violation == \E r \in rows : r.profile_name = api_info.profile_name
        row == UnencRow(NewRowid(rows), api_info, TRUE)
    IN  IF unique_violation
           \/ (has_encrypted_columns
               /\ ForeignKeyViolation(conn, {r.id : r \in conn.api_info.rows}))
        THEN [ok |-> FALSE, conn |-> conn]
        ELSE [ok |-> TRUE,
              conn |-> [conn EXCEPT !.api_info =
                           [shape |-> "unenc", rows |-> rows \cup {row}]]]

\* Database::save_api_info; `n` nonces of the invocation were drawn before
save_api_info(db, api_info, seed, n) ==
    LET conn == db.conn
        table_exists == conn.api_info.shape # "none"
        has_encrypted_columns == conn.api_info.shape = "enc"
        has_unencrypted_columns == conn.api_info.shape = "unenc"
        rows == conn.api_info.rows
        first == [shape |-> "unenc", rows |-> {UnencRow(1, api_info, TRUE)}]
        \* INSERT OR REPLACE: the rowid is allocated, then the row holding the
        \* profile_name is deleted, then the new row is inserted
        replaced == {r \in rows : r.profile_name # api_info.profile_name}
                    \cup {UnencRow(NewRowid(rows), api_info, api_info.is_default)}
        pin_hash == conn.app_settings
        pin == get_cached_pin(db)
        key == encrypt_string(api_info.api_key, pin.pin, Nonce(seed, n + 1))
        sec == encrypt_string(api_info.api_secret, pin.pin, Nonce(seed, n + 2))
        existing == {r \in rows : r.profile_name = api_info.profile_name}
        updated == {IF r \in existing
                    THEN EncRow(r.id, api_info, key, sec, api_info.is_default)
                    ELSE r : r \in rows}
        inserted == rows \cup {EncRow(NewRowid(rows), api_info, key, sec, api_info.is_default)}
    IN  IF ~table_exists
        THEN [ok |-> TRUE, db |-> [db EXCEPT !.conn.api_info = first]]
        ELSE IF has_unencrypted_columns
        THEN IF ForeignKeyViolation(conn, {r.id : r \in existing})
             THEN [ok |-> FALSE, db |-> db]
             ELSE [ok |-> TRUE, db |-> [db EXCEPT !.conn.api_info.rows = replaced]]
        ELSE IF has_encrypted_columns
        THEN IF pin_hash = {} \/ ~pin.ok
             THEN [ok |-> FALSE, db |-> db]
             ELSE [ok |-> TRUE,
                   db |-> [db EXCEPT !.conn.api_info.rows =
                              IF existing # {} THEN updated ELSE inserted]]
        ELSE [ok |-> TRUE, db |-> [db EXCEPT !.conn.api_info = first]]

\* a set_default_profile that keeps the first UPDATE when the second one
\* affects no row: on it C12_UnknownNameRollsBack fails
set_default_profile_no_rollback(conn, profile_name) ==
    LET rows == conn.api_info.rows
        cleared == {[r EXCEPT !.is_default = FALSE] : r \in rows}
        rows_affected == Cardinality({r \in rows : r.profile_name = profile_name})
    IN  IF conn.api_info.shape = "none" THEN [ok |-> FALSE, conn |-> conn]
        ELSE IF rows_affected = 0
        THEN [ok |-> FALSE, conn |-> [conn EXCEPT !.api_info.rows = cleared]]
        ELSE [ok |-> TRUE,
              conn |-> [conn EXCEPT !.api_info.rows =
                           {[r EXCEPT !.is_default = (r.profile_name = profile_name)]
                              : r \in rows}]]

\* Database::set_default_profile (one transaction)
set_default_profile(conn, profile_name) ==
    LET rows == conn.api_info.rows
        rows_affected == Cardinality({r \in rows : r.profile_name = profile_name})
    IN  IF conn.api_info.shape = "none" \/ rows_affected = 0
        THEN [ok |-> FALSE, conn |-> conn]
        ELSE [ok |-> TRUE,
              conn |-> [conn EXCEPT !.api_info.rows =
                           {[r EXCEPT !.is_default = (r.profile_name = profile_name)]
                              : r \in rows}]]

\* the row a query_row returns: the first match in rowid order
FirstRow(rows) == {r \in rows : \A q \in rows : r.id <= q.id}

\* the profile of an encrypted row with its secrets decrypted under `pin`;
\* a field that does not decrypt becomes the empty string
Decrypted(r, pin) ==
    LET k == decrypt_string(r.encrypted_api_key, r.api_key_nonce, pin)
        s == decrypt_string(r.encrypted_api_secret, r.api_secret_nonce, pin)
    IN  ApiInfo(r.id, r.profile_name,
                IF k.ok THEN k.plaintext ELSE "",
                IF s.ok THEN s.plaintext ELSE "",
                r.api_url, r.port, r.is_default)

\* the profile of an encrypted row with String::new() for its secrets
Blanked(r) == ApiInfo(r.id, r.profile_name, "", "", r.api_url, r.port, r.is_default)

\* a read that takes a missing PIN for an error, as save_api_info does: on it
\* C2_BlankWithoutPin fails
decrypt_row_pin_required(db, r) ==
    LET pin == get_cached_pin(db)
    IN  IF ~pin.ok
        THEN [ok |-> FALSE, val |-> {}]
        ELSE [ok |-> TRUE, val |-> {Decrypted(r, pin.pin)}]

\* get_api_info on the encrypted row it selected
decrypt_row(db, r) ==
    LET pin == get_cached_pin(db)
    IN  IF ~pin.ok
        THEN [ok |-> TRUE, val |-> {Blanked(r)}]
        ELSE [ok |-> TRUE, val |-> {Decrypted(r, pin.pin)}]

\* Database::get_api_info; val is Option<ApiInfo> as a set
get_api_info(db, profile_name) ==
    LET t == db.conn.api_info
        has_encrypted_columns == t.shape = "enc"
        hit == FirstRow(IF profile_name # None
                        THEN {r \in t.rows : r.profile_name = profile_name}
                        ELSE {r \in t.rows : r.is_default})
    IN  IF t.shape = "none" THEN [ok |-> FALSE, val |-> {}]
        ELSE IF hit = {} THEN [ok |-> TRUE, val |-> {}]
        ELSE IF has_encrypted_columns THEN decrypt_row(db, CHOOSE r \in hit : TRUE)
        ELSE [ok |-> TRUE, val |-> hit]

\* a list that decrypts each row as get_api_info does: on it
\* C19_ListNeverDecrypts fails
list_api_profiles_decrypting(db) ==
    LET t == db.conn.api_info
        seq == SeqByName(t.rows)
    IN  IF t.shape = "none" THEN [ok |-> FALSE, val |-> <<>>]
        ELSE IF t.shape = "enc"
        THEN [ok |-> TRUE,
              val |-> [i \in 1..Len(seq) |->
                         CHOOSE a \in decrypt_row(db, seq[i]).val : TRUE]]
        ELSE [ok |-> TRUE, val |-> seq]

\* Database::list_api_profiles; val is the Vec<ApiInfo> in profile_name order
list_api_profiles(db) ==
    LET t == db.conn.api_info
        has_encrypted_columns == t.shape = "enc"
        seq == SeqByName(t.rows)
    IN  IF t.shape = "none" THEN [ok |-> FALSE, val |-> <<>>]
        ELSE IF has_encrypted_columns
        THEN [ok |-> TRUE,
              val |-> [i \in 1..Len(seq) |->
                         Blanked(seq[i])]]
        ELSE [ok |-> TRUE, val |-> seq]

\* a delete that leaves the preference rows of the profile behind: on it
\* C27_DeleteTakesOwnPrefs fails
delete_api_profile_keeps_prefs(conn, profile_name) ==
    LET rows == conn.api_info.rows
        found == {r \in rows : r.profile_name = profile_name}
        left == rows \ found
    IN  IF conn.api_info.shape = "none" \/ Cardinality(rows) <= 1 \/ found = {}
        THEN [ok |-> FALSE, conn |-> conn]
        ELSE [ok |-> TRUE,
              conn |-> [conn EXCEPT !.api_info.rows =
                           {IF r \in FirstRow(left) THEN [r EXCEPT !.is_default = TRUE] ELSE r
                              : r \in left}]]

\* Database::delete_api_profile (one transaction)
delete_api_profile(conn, profile_name) ==
    LET rows == conn.api_info.rows
        profile_count == Cardinality(rows)
        found == {r \in rows : r.profile_name = profile_name}
        profile == CHOOSE r \in found : TRUE
        left == rows \ found
        promoted == {IF r \in FirstRow(left) THEN [r EXCEPT !.is_default = TRUE] ELSE r
                       : r \in left}
    IN  IF conn.api_info.shape = "none" \/ profile_count <= 1 \/ found = {}
        THEN [ok |-> FALSE, conn |-> conn]
        ELSE [ok |-> TRUE,
              conn |-> [conn EXCEPT
                  !.dashboard_preferences = {d \in @ : d.profile_id # profile.id},
                  !.api_info.rows = IF profile.is_default THEN promoted ELSE left]]

\* Database::update_password_hash
update_password_hash(db, new_hash) ==
    [db EXCEPT !.conn.app_settings =
                   {[id |-> 1, password_hash |-> new_hash,
                     pin_salt |-> SaltString_generate]},
               !.current_pin_key = {}]

\* Vec::push of a read that returned Ok(Some(profile))
PushIfSome(g) == IF g.ok /\ g.val # {} THEN <<CHOOSE a \in g.val : TRUE>> ELSE <<>>

RECURSIVE DecryptProfiles(_, _, _)
\* the first for loop of update_pin: get_api_info of every listed profile,
\* profiles whose read does not return Some are skipped
DecryptProfiles(db, api_profiles, k) ==
    IF k > Len(api_profiles) THEN <<>>
    ELSE PushIfSome(get_api_info(db, api_profiles[k].profile_name))
         \o DecryptProfiles(db, api_profiles, k + 1)

\* update_pin when the save of a profile returned an error: the old PIN
\* goes back into the cache
RestorePin(db, old_pin) == IF old_pin # None THEN [db EXCEPT !.pin_cache = old_pin] ELSE db

RECURSIVE ResaveProfiles(_, _, _, _, _, _, _)
\* the second for loop of update_pin: save_api_info of every decrypted
\* profile, stopping at the first failure
ResaveProfiles(db, decrypted_profiles, k, seed, n, fault, old_pin) ==
    IF k > Len(decrypted_profiles) THEN [ok |-> TRUE, fired |-> FALSE, db |-> db]
    ELSE IF fault = <<"save", k>>
    THEN [ok |-> FALSE, fired |-> TRUE, db |-> RestorePin(db, old_pin)]
    ELSE IF ~save_api_info(db, decrypted_profiles[k], seed, n + 2 * (k - 1)).ok
    THEN [ok |-> FALSE, fired |-> FALSE, db |-> RestorePin(db, old_pin)]
    ELSE ResaveProfiles(save_api_info(db, decrypted_profiles[k], seed, n + 2 * (k - 1)).db,
                        decrypted_profiles, k + 1, seed, n, fault, old_pin)

\* the storage faults that can hit a run of update_pin on `conn`
UpdatePinFaults(conn) ==
    MigrationFaults(conn) \cup {<<"hash">>}
    \cup {<<"save", k>> : k \in 1..Cardinality(conn.api_info.rows)}

\* update_pin after its verify_pin call returned `v`; `n` nonces were drawn
\* by then
update_pin_verified(v, new_pin, seed, n, fault) ==
    LET api_profiles == list_api_profiles(v.db)
        new_hash == hash_password(new_pin)
        old_pin == v.db.pin_cache
        db1 == [v.db EXCEPT
                   !.conn.app_settings = {[a EXCEPT !.password_hash = new_hash] : a \in @},
                   !.current_pin_key = {},
                   !.pin_cache = new_pin]
        Result(saved) ==
            [ok |-> saved.ok, mig |-> v.mig, fired |-> v.fired \/ saved.fired, db |-> saved.db]
    IN  IF v.ret # "true" \/ ~api_profiles.ok
        THEN [ok |-> FALSE, mig |-> v.mig, fired |-> v.fired, db |-> v.db]
        ELSE IF fault = <<"hash">>
        THEN [ok |-> FALSE, mig |-> v.mig, fired |-> TRUE, db |-> v.db]
        ELSE Result(ResaveProfiles(db1, DecryptProfiles(v.db, api_profiles.val, 1),
                                   1, seed, n, fault, old_pin))

\* an update_pin that goes on whatever its verify_pin call returned: on it
\* C16_RejectedUpdateChangesNothing fails
update_pin_unchecked(db, current_pin, new_pin, seed, fault) ==
    update_pin_verified([verify_pin(db, current_pin, seed, fault) EXCEPT !.ret = "true"],
                        new_pin, seed, 2 * Cardinality(db.conn.api_info.rows), fault)

\* Database::update_pin
update_pin(db, current_pin, new_pin, seed, fault) ==
    update_pin_verified(verify_pin(db, current_pin, seed, fault), new_pin, seed,
                        2 * Cardinality(db.conn.api_info.rows), fault)

RECURSIVE InsertPrefs(_, _, _, _)
\* the for loop of save_dashboard_preferences: one INSERT per preference
InsertPrefs(rows, profile_id, preferences, k) ==
    IF k > Len(preferences) THEN rows
    ELSE InsertPrefs(rows \cup {[id |-> NewRowid(rows), profile_id |-> profile_id,
                                 widget_key |-> preferences[k].widget_key,
                                 visible |-> preferences[k].visible,
                                 position |-> preferences[k].position]},
                     profile_id, preferences, k + 1)

\* Database::save_dashboard_preferences (one transaction)
save_dashboard_preferences(conn, profile_id, preferences) ==
    IF /\ conn.foreign_keys /\ Len(preferences) > 0
       /\ \A r \in conn.api_info.rows : r.id # profile_id
    THEN [ok |-> FALSE, conn |-> conn]
    ELSE [ok |-> TRUE,
          conn |-> [conn EXCEPT !.dashboard_preferences =
                       InsertPrefs({d \in @ : d.profile_id # profile_id}, profile_id,
                                   preferences, 1)]]

----------------------------------------------------------------------------
\* The running application: the managed Database and PinCache (lib.rs) and
\* the Tauri commands (commands.rs, pin_cache.rs)

VARIABLES
    conn,             \* Database.conn: the persisted tables
    pin_cache,        \* Database.pin_cache: the PIN the store encrypts with
    current_pin_key,  \* Database.current_pin_key, Option as a set
    app_pin_cache,    \* the PinCache managed by the application (lib.rs)
    opened,           \* Database::new returned Ok at the last start
    faults,           \* storage faults so far
    op,               \* the last command
    ret,              \* its result: "ok" | "err" | "true" | "false"
    out,              \* the profiles it returned, or the profile it removed
    mig,              \* the outcome of the complete_migration it ran
    calls             \* the commands in flight, see NoCalls

vars == <<conn, pin_cache, current_pin_key, app_pin_cache, opened, faults, op, ret, out, mig,
          calls>>

DB == [conn |-> conn, pin_cache |-> pin_cache, current_pin_key |-> current_pin_key]

\* a store written by a release that kept api_info in plaintext and had no
\* pin_salt column: migrate_data adds the column with DEFAULT ''
LegacyConns ==
    LET main == UnencRow(1, ApiInfo(0, "main", "k1", "s1", "http://fw", 443, TRUE), TRUE)
        backup == UnencRow(2, ApiInfo(0, "backup", "k2", "s1", "http://fw", 443, FALSE), FALSE)
    IN  {[first_run |-> TRUE,
          app_settings |-> {[id |-> 1, password_hash |-> hash_password("1234"),
                             pin_salt |-> ""]},
          api_info |-> [shape |-> "unenc", rows |-> rows],
          api_info_new |-> NoNewTable,
          dashboard_preferences |-> {},
          foreign_keys |-> FALSE] : rows \in {{main}, {main, backup}}}

\* no command in flight, Options as sets.  verify_pin: the arguments of the verify_pin the main
\* thread is in, between its first lock of conn and its return;
\* save_initial_config: the profile of the save_initial_config the async
\* runtime is in, between update_password_hash and save_initial_api_info;
\* verified: the PIN of the last verify_pin that returned true; followed:
\* the last get_devices ran right after a verify_pin that had returned true;
\* update_pin: current_pin, new_pin and confirm_new_pin of the last update_pin
\* that was logged; migration: the locals of the complete_migration the
\* verify_pin in flight is in, `at` the lock it takes next; pin_change: the
\* locals of the Database::update_pin the main thread is in, past its
\* verify_pin
NoCalls ==
    [verify_pin |-> {}, save_initial_config |-> {}, verified |-> None, followed |-> FALSE,
     update_pin |-> <<>>, migration |-> {}, pin_change |-> {}, saved |-> {}]

\* Database::new on the data directories `dirs`
InitOn(dirs) ==
    /\ \E c \in dirs : conn = migrate_data(c).conn
    /\ pin_cache = PinCache_new
    /\ current_pin_key = {}
    /\ app_pin_cache = PinCache_new
    /\ opened = TRUE
    /\ faults = 0
    /\ op = "new" /\ ret = "ok" /\ out = {} /\ mig = "none"
    /\ calls = NoCalls

\* first start on a fresh or on a legacy data directory
Init == InitOn({EmptyConn} \cup LegacyConns)

\* first start on a fresh data directory
InitFresh == InitOn({EmptyConn})

\* first start, on a build of SQLite that enforces foreign keys or on one
\* that does not
InitAnyBuild ==
    InitOn({[c EXCEPT !.foreign_keys = b] : c \in {EmptyConn} \cup LegacyConns, b \in BOOLEAN})

IdsInBound(c) ==
    /\ \A r \in c.api_info.rows \cup c.api_info_new.rows : r.id <= MaxId
    /\ \A d \in c.dashboard_preferences : d.id <= MaxPrefId

\* the state after a step that leaves the commands `c` in flight
CommitC(db, app, o, r, o_out, m, fired, c) ==
    /\ faults' = IF fired THEN faults + 1 ELSE faults
    /\ IdsInBound(db.conn)
    /\ conn' = db.conn
    /\ pin_cache' = db.pin_cache
    /\ current_pin_key' = db.current_pin_key
    /\ app_pin_cache' = app
    /\ opened' = opened
    /\ op' = o /\ ret' = r /\ out' = o_out /\ mig' = m
    /\ calls' = c

\* the state after a command in which a storage fault happened (fired) or not
CommitF(db, app, o, r, o_out, m, fired) ==
    CommitC(db, app, o, r, o_out, m, fired, calls)

\* the state after a command without storage fault
Commit(db, app, o, r, o_out, m) == CommitF(db, app, o, r, o_out, m, FALSE)

\* the nonce draws that matter: one when the command encrypts nothing
SeedsIf(encrypts) == IF encrypts THEN Seeds ELSE {1}

MkRet(ok) == IF ok THEN "ok" ELSE "err"

\* process exit, then run(): PinCache::new, Database::new (initialize_tables,
\* migrate_data); a failing Database::new panics at start
Restart ==
    \E m \in {migrate_data(conn)} :
        /\ conn' = m.conn
        /\ pin_cache' = PinCache_new
        /\ current_pin_key' = {}
        /\ app_pin_cache' = PinCache_new
        /\ opened' = m.ok
        /\ faults' = faults
        /\ op' = "new" /\ ret' = MkRet(m.ok) /\ out' = {} /\ mig' = "none"
        /\ calls' = NoCalls

\* commands::save_initial_config
SaveInitialConfig ==
    \E name \in ProfileNames, key \in ApiKeys, secret \in ApiSecrets,
       url \in Urls, port \in Ports, pin \in Pins :
        \E db1 \in {update_password_hash(DB, hash_password(pin))} :
        \E s \in {save_initial_api_info(db1.conn, ApiInfo(0, name, key, secret, url, port, TRUE))} :
            /\ opened
            /\ Commit([db1 EXCEPT !.conn = [s.conn EXCEPT !.first_run = s.ok \/ @]],
                      pin, "save_initial_config", MkRet(s.ok), {}, "none")

\* Database::get_api_info, by name or default (commands::get_api_info)
GetApiInfo ==
    \E profile_name \in ProfileNames \cup {None} :
        \E g \in {get_api_info(DB, profile_name)} :
            /\ opened
            /\ Commit(DB, app_pin_cache, "get_api_info", MkRet(g.ok),
                      g.val, "none")

\* commands::get_api_profiles
GetApiProfiles ==
    \E l \in {list_api_profiles(DB)} :
        /\ opened
        /\ Commit(DB, app_pin_cache, "get_api_profiles", MkRet(l.ok),
                  {l.val[i] : i \in 1..Len(l.val)}, "none")

\* commands::update_api_info
UpdateApiInfo ==
    \E profile_name \in ProfileNames, key \in ApiKeys, secret \in ApiSecrets,
       url \in Urls, port \in Ports, is_default \in BOOLEAN,
       seed \in SeedsIf(conn.api_info.shape = "enc") :
        \E g \in {get_api_info(DB, profile_name)} :
            /\ opened
            /\ IF g.ok /\ g.val # {}
               THEN \E old \in g.val :
                    \E s \in {save_api_info(DB, ApiInfo(old.id, old.profile_name, key, secret,
                                                        url, port, is_default), seed, 0)} :
                    \E d \in {set_default_profile(s.db.conn, profile_name)} :
                        Commit(IF s.ok /\ is_default THEN [s.db EXCEPT !.conn = d.conn] ELSE s.db,
                               app_pin_cache, "update_api_info",
                               MkRet(s.ok /\ (is_default => d.ok)), {}, "none")
               ELSE Commit(DB, app_pin_cache, "update_api_info",
                           "err", {}, "none")

\* commands::update_pin, no storage fault or the storage fault `fault`;
\* logged: its arguments are kept in calls
UpdatePinStep(fault, logged) ==
    \E current_pin \in Pins, new_pin \in Pins, confirm_new_pin \in Pins,
       seed \in SeedsIf(conn.api_info.shape # "none" /\ conn.app_settings # {}) :
        \E u \in {update_pin(DB, current_pin, new_pin, seed, fault)},
           c \in {IF logged
                  THEN [calls EXCEPT !.update_pin = <<current_pin, new_pin, confirm_new_pin>>]
                  ELSE calls} :
            /\ opened
            /\ IF new_pin # confirm_new_pin
               THEN /\ fault = <<"none">>
                    /\ CommitC(DB, app_pin_cache, "update_pin", "err", {}, "none", FALSE, c)
               ELSE /\ (fault = <<"none">>) = ~u.fired
                    /\ CommitC(u.db, IF u.ok THEN new_pin ELSE app_pin_cache,
                               "update_pin", MkRet(u.ok), {}, u.mig, u.fired, c)

UpdatePinWith(fault) == UpdatePinStep(fault, FALSE)

\* commands::update_pin, its arguments kept
UpdatePinLogged == UpdatePinStep(<<"none">>, TRUE)

UpdatePin == UpdatePinWith(<<"none">>)

\* commands::update_pin hit by a storage fault
UpdatePinFault ==
    /\ faults < MaxFaults
    /\ \E fault \in UpdatePinFaults(conn) : UpdatePinWith(fault)

\* commands::add_api_profile
AddApiProfileStep(logged) ==
    \E profile_name \in ProfileNames, key \in ApiKeys, secret \in ApiSecrets,
       url \in Urls, port \in Ports, seed \in SeedsIf(conn.api_info.shape = "enc") :
        \E s \in {save_api_info(DB, ApiInfo(0, profile_name, key, secret, url, port, FALSE),
                                 seed, 0)},
           c \in {IF logged
                  THEN [calls EXCEPT !.saved = {[profile_name |-> profile_name,
                                                 api_key |-> key, api_secret |-> secret]}]
                  ELSE calls} :
            /\ opened
            /\ CommitC(s.db, app_pin_cache, "add_api_profile",
                       MkRet(s.ok), {}, "none", FALSE, c)

AddApiProfile == AddApiProfileStep(FALSE)

\* commands::add_api_profile, its arguments kept
AddApiProfileLogged == AddApiProfileStep(TRUE)

\* a delete that does not check the profile count: on it
\* C11_LastProfileStays fails
DeleteApiProfile_unguarded ==
    \E profile_name \in ProfileNames :
        /\ opened
        /\ conn.api_info.shape # "none"
        /\ Commit([DB EXCEPT !.conn.api_info.rows = {r \in @ : r.profile_name # profile_name}],
                  app_pin_cache, "delete_api_profile", "ok", {}, "none")

\* a choice of the new default that forgets to skip the deleted profile: on it
\* C13_DeleteDefaultPromotes fails
find_new_default_first_listed(profiles, profile_name) ==
    IF Len(profiles) = 0 THEN {} ELSE {profiles[1]}

\* delete_api_profile: profiles.iter().find(|p| p.profile_name != profile_name)
find_new_default(profiles, profile_name) ==
    LET others == {i \in 1..Len(profiles) : profiles[i].profile_name # profile_name}
    IN  IF others = {} THEN {}
        ELSE {profiles[CHOOSE i \in others : \A j \in others : i <= j]}

\* commands::delete_api_profile; out: the listed profile it removed
DeleteApiProfile ==
    \E profile_name \in ProfileNames :
        \E profiles \in {list_api_profiles(DB)}, d \in {delete_api_profile(conn, profile_name)} :
        LET found == {profiles.val[i] : i \in {k \in 1..Len(profiles.val) :
                                                 profiles.val[k].profile_name = profile_name}}
            is_default == \E p \in found : p.is_default
            new_default == find_new_default(profiles.val, profile_name)
        IN  /\ opened
            /\ IF ~profiles.ok \/ Len(profiles.val) = 1 \/ ~d.ok
               THEN Commit(DB, app_pin_cache, "delete_api_profile",
                           "err", {}, "none")
               ELSE IF is_default
               THEN IF new_default = {}
                    THEN Commit([DB EXCEPT !.conn = d.conn], app_pin_cache,
                                "delete_api_profile", "err", found, "none")
                    ELSE \E nd \in new_default :
                         \E sd \in {set_default_profile(d.conn, nd.profile_name)} :
                             Commit([DB EXCEPT !.conn = sd.conn], app_pin_cache,
                                    "delete_api_profile", MkRet(sd.ok), found, "none")
               ELSE Commit([DB EXCEPT !.conn = d.conn], app_pin_cache,
                           "delete_api_profile", "ok", found, "none")

\* commands::set_default_profile
SetDefaultProfile ==
    \E profile_name \in ProfileNames :
        \E d \in {set_default_profile(conn, profile_name)} :
            /\ opened
            /\ Commit([DB EXCEPT !.conn = d.conn], app_pin_cache, "set_default_profile", MkRet(d.ok), {}, "none")

\* the preference lists a caller may pass
PrefLists ==
    UNION {[1..n -> [widget_key : WidgetKeys, visible : BOOLEAN, position : Positions]]
             : n \in 0..MaxPrefs}

\* commands::save_dashboard_preferences: the preferences of the default profile
SaveDashboardPreferences ==
    \E prefs \in PrefLists :
        \E g \in {get_api_info(DB, None)} :
            /\ opened
            /\ IF g.ok /\ g.val # {}
               THEN \E api_info \in g.val :
                    \E s \in {save_dashboard_preferences(conn, api_info.id, prefs)} :
                        Commit([DB EXCEPT !.conn = s.conn], app_pin_cache,
                               "save_dashboard_preferences", MkRet(s.ok), {}, "none")
               ELSE Commit(DB, app_pin_cache, "save_dashboard_preferences", "err", {}, "none")

\* pin_cache::set_pin
SetPin ==
    \E pin \in Pins :
        /\ opened
        /\ Commit(DB, pin, "set_pin", "ok", {}, "none")

\* pin_cache::clear_pin
ClearPin ==
    /\ opened
    /\ Commit(DB, None, "clear_pin", "ok", {}, "none")

\* pin_cache::verify_pin, no storage fault or the storage fault `fault`
VerifyPinWith(fault) ==
    \E pin \in Pins, seed \in SeedsIf(conn.api_info.shape = "unenc") :
        \E v \in {verify_pin(DB, pin, seed, fault)} :
            /\ opened
            /\ (fault = <<"none">>) = ~v.fired
            /\ CommitF(v.db, IF v.ret = "true" THEN pin ELSE app_pin_cache,
                       "verify_pin", v.ret, {}, v.mig, v.fired)

VerifyPin == VerifyPinWith(<<"none">>)

\* pin_cache::verify_pin hit by a storage fault
VerifyPinFault ==
    /\ faults < MaxFaults
    /\ \E fault \in MigrationFaults(conn) : VerifyPinWith(fault)

\* pin_cache::verify_pin on the main thread, up to the drop(conn) of
\* Database::verify_pin; a PIN that does not verify returns here
VerifyPinCheck ==
    \E pin \in Pins :
        \E v \in {verify_pin_check(DB, pin)} :
            /\ opened
            /\ calls.verify_pin = {}
            /\ IF v.ret = "false"
               THEN CommitC(DB, app_pin_cache, "verify_pin", "false", {}, "none", FALSE, calls)
               ELSE CommitC(v.db, app_pin_cache, op, ret, out, mig, FALSE,
                            [calls EXCEPT !.verify_pin = {[pin |-> pin, salt |-> v.salt]}])

\* pin_cache::verify_pin on the main thread from complete_migration to its
\* return; the locks complete_migration takes one after the other are taken
\* as one, they guard the tables only
VerifyPinReturn ==
    \E seed \in SeedsIf(conn.api_info.shape = "unenc") :
        /\ opened
        /\ \E call \in calls.verify_pin :
           \E m \in {complete_migration(DB, call.pin, seed, <<"none">>)} :
           \E v \in {derive_after_migration(m, call.pin, call.salt)} :
               CommitC(v.db, IF v.ret = "true" THEN call.pin ELSE app_pin_cache,
                       "verify_pin", v.ret, {}, v.mig, FALSE,
                       [calls EXCEPT !.verify_pin = {},
                                     !.verified = IF v.ret = "true" THEN call.pin ELSE @])

\* devices::get_devices on the async runtime, up to the profile it reads with
\* get_default_api_info; out: that profile
GetDevices ==
    \E g \in {get_api_info(DB, None)} :
        /\ opened
        /\ CommitC(DB, app_pin_cache, "get_devices", MkRet(g.ok /\ g.val # {}), g.val,
                   "none", FALSE, [calls EXCEPT !.followed = (op = "verify_pin" /\ ret = "true"
                                                       /\ calls.verify_pin = {})])

\* commands::save_initial_config on the async runtime, up to pin_cache.set_pin
SaveInitialConfigHash ==
    \E name \in ProfileNames, key \in ApiKeys, secret \in ApiSecrets,
       url \in Urls, port \in Ports, pin \in Pins :
        /\ opened
        /\ calls.save_initial_config = {}
        /\ CommitC(update_password_hash(DB, hash_password(pin)), pin, op, ret, out, mig, FALSE,
                   [calls EXCEPT !.save_initial_config =
                                     {ApiInfo(0, name, key, secret, url, port, TRUE)}])

\* commands::save_initial_config from save_initial_api_info to its return
SaveInitialConfigInsert ==
    /\ opened
    /\ \E api_info \in calls.save_initial_config :
       \E s \in {save_initial_api_info(conn, api_info)} :
           CommitC([DB EXCEPT !.conn = [s.conn EXCEPT !.first_run = s.ok \/ @]],
                   app_pin_cache, "save_initial_config", MkRet(s.ok), {}, "none", FALSE,
                   [calls EXCEPT !.save_initial_config = {}])

\* a step of the complete_migration in flight: the tables become `c`, the
\* locals `m`
MigrationStep(c, m) ==
    CommitC([DB EXCEPT !.conn = c], app_pin_cache, op, ret, out, mig, FALSE,
            [calls EXCEPT !.migration = {m}])

\* complete_migration, first lock: the columns of api_info and the presence
\* of api_info_new are read
MigrationHead ==
    /\ opened
    /\ calls.verify_pin # {} /\ calls.migration = {}
    /\ MigrationStep(conn, [at |-> IF MigrationNeeded(conn) THEN "salt" ELSE "noop",
                             has_api_info_new |-> conn.api_info_new.exists,
                             profiles |-> <<>>, k |-> 1])

\* complete_migration, second lock: pin_salt is set when it is empty
MigrationSalt ==
    \E m \in calls.migration :
        /\ m.at = "salt"
        /\ MigrationStep(IF \E a \in conn.app_settings : a.pin_salt # "" THEN conn
                         ELSE [conn EXCEPT !.app_settings =
                                  {[a EXCEPT !.pin_salt = SaltString_generate] : a \in @}],
                         [m EXCEPT !.at = IF m.has_api_info_new THEN "read" ELSE "create"])

\* complete_migration, third lock: CREATE TABLE api_info_new
MigrationCreate ==
    \E m \in calls.migration :
        /\ m.at = "create"
        /\ IF conn.api_info_new.exists
           THEN MigrationStep(conn, [m EXCEPT !.at = "err"])
           ELSE MigrationStep([conn EXCEPT !.api_info_new = [exists |-> TRUE, rows |-> {}]],
                              [m EXCEPT !.at = "read"])

\* complete_migration, fourth lock: the plaintext profiles are read
MigrationRead ==
    \E m \in calls.migration :
        /\ m.at = "read"
        /\ IF conn.api_info.shape # "unenc"
           THEN MigrationStep(conn, [m EXCEPT !.at = "err"])
           ELSE MigrationStep(conn, [m EXCEPT !.profiles = SeqById(conn.api_info.rows),
                                              !.at = IF conn.api_info.rows = {}
                                                     THEN "swap" ELSE "insert"])

\* complete_migration, one lock per profile read: the profile is encrypted
\* and inserted into api_info_new
MigrationInsert ==
    \E m \in {x \in calls.migration : x.at = "insert"},
       call \in calls.verify_pin, seed \in Seeds :
        \E l \in {InsertEncrypted(<<m.profiles[m.k]>>, 1, conn.api_info_new.rows,
                                   call.pin, seed, <<"none">>)} :
            /\ IF ~l.ok \/ ~conn.api_info_new.exists
               THEN MigrationStep(conn, [m EXCEPT !.at = "err"])
               ELSE MigrationStep([conn EXCEPT !.api_info_new.rows = l.rows],
                                  [m EXCEPT !.k = @ + 1,
                                            !.at = IF m.k = Len(m.profiles)
                                                   THEN "swap" ELSE "insert"])

\* complete_migration, last lock: DROP TABLE api_info, then api_info_new is
\* renamed to api_info
MigrationSwap ==
    \E m \in calls.migration :
        /\ m.at = "swap"
        /\ IF \/ conn.api_info.shape = "none" \/ ~conn.api_info_new.exists
              \/ ForeignKeyViolation(conn, {r.id : r \in conn.api_info.rows})
           THEN MigrationStep(conn, [m EXCEPT !.at = "err"])
           ELSE MigrationStep([conn EXCEPT
                                  !.api_info = [shape |-> "enc",
                                                rows |-> conn.api_info_new.rows],
                                  !.api_info_new = NoNewTable],
                              [m EXCEPT !.at = "ok"])

\* pin_cache::verify_pin after complete_migration returned: the key is
\* derived, the application's PinCache is written
MigrationReturn ==
    \E m \in calls.migration, call \in calls.verify_pin :
        \E v \in {derive_after_migration([ok |-> m.at # "err", noop |-> m.at = "noop",
                                          fired |-> FALSE, db |-> DB],
                                         call.pin, call.salt)} :
            /\ m.at \in {"noop", "ok", "err"}
            /\ CommitC(v.db, IF v.ret = "true" THEN call.pin ELSE app_pin_cache,
                       "verify_pin", v.ret, {}, v.mig, FALSE,
                       [calls EXCEPT !.verify_pin = {}, !.migration = {},
                                     !.verified = IF v.ret = "true" THEN call.pin ELSE @])

\* a step of the Database::update_pin in flight: the store becomes `db`, the
\* locals `u`
PinChangeStep(db, u) ==
    CommitC(db, app_pin_cache, op, ret, out, mig, FALSE, [calls EXCEPT !.pin_change = {u}])

\* commands::update_pin on the main thread, up to the profiles it read:
\* verify_pin, list_api_profiles, get_api_info of every profile; a mismatch
\* of the new PIN or a current PIN that does not verify returns here
UpdatePinRead ==
    \E current_pin \in Pins, new_pin \in Pins, confirm_new_pin \in Pins,
       seed \in SeedsIf(conn.api_info.shape = "unenc") :
        \E v \in {verify_pin(DB, current_pin, seed, <<"none">>)} :
        \E api_profiles \in {list_api_profiles(v.db)} :
            /\ opened
            /\ calls.pin_change = {}
            /\ IF new_pin # confirm_new_pin
               THEN Commit(DB, app_pin_cache, "update_pin", "err", {}, "none")
               ELSE IF v.ret # "true" \/ ~api_profiles.ok
               THEN Commit(v.db, app_pin_cache, "update_pin", "err", {}, v.mig)
               ELSE PinChangeStep(v.db,
                        [new_pin |-> new_pin, old_pin |-> None, k |-> 1, at |-> "hash",
                         decrypted_profiles |-> DecryptProfiles(v.db, api_profiles.val, 1)])

\* Database::update_pin: UPDATE app_settings SET password_hash
UpdatePinHash ==
    \E u \in calls.pin_change :
        /\ u.at = "hash"
        /\ PinChangeStep([DB EXCEPT !.conn.app_settings =
                              {[a EXCEPT !.password_hash = hash_password(u.new_pin)] : a \in @}],
                         [u EXCEPT !.at = "cache"])

\* Database::update_pin: the key is cleared, the new PIN goes into the cache
UpdatePinCache ==
    \E u \in calls.pin_change :
        /\ u.at = "cache"
        /\ PinChangeStep([DB EXCEPT !.current_pin_key = {}, !.pin_cache = u.new_pin],
                         [u EXCEPT !.old_pin = pin_cache,
                                   !.at = IF Len(u.decrypted_profiles) = 0
                                          THEN "ok" ELSE "save"])

\* Database::update_pin: save_api_info of the next decrypted profile
UpdatePinSave ==
    \E u \in {x \in calls.pin_change : x.at = "save"},
       seed \in SeedsIf(conn.api_info.shape = "enc") :
        \E s \in {save_api_info(DB, u.decrypted_profiles[u.k], seed, 0)} :
            IF ~s.ok
            THEN PinChangeStep(RestorePin(DB, u.old_pin), [u EXCEPT !.at = "err"])
            ELSE PinChangeStep(s.db, [u EXCEPT !.k = @ + 1,
                                               !.at = IF u.k = Len(u.decrypted_profiles)
                                                      THEN "ok" ELSE "save"])

\* commands::update_pin after Database::update_pin returned
UpdatePinReturn ==
    \E u \in calls.pin_change :
        /\ u.at \in {"ok", "err"}
        /\ CommitC(DB, IF u.at = "ok" THEN u.new_pin ELSE app_pin_cache,
                   "update_pin", u.at, {}, "none", FALSE,
                   [calls EXCEPT !.pin_change = {}])

Next ==
    \/ Restart
    \/ SaveInitialConfig
    \/ GetApiInfo
    \/ GetApiProfiles
    \/ UpdateApiInfo
    \/ UpdatePin
    \/ AddApiProfile
    \/ DeleteApiProfile
    \/ SetDefaultProfile
    \/ VerifyPin

Spec == Init /\ [][Next]_vars

\* Spec with the commands that only write the application's PinCache
NextSession ==
    \/ Next
    \/ SetPin
    \/ ClearPin

SpecSession == Init /\ [][NextSession]_vars

\* Spec for a store this release set up itself
SpecFresh == InitFresh /\ [][Next]_vars

\* the profile commands alone
NextProfiles ==
    \/ AddApiProfile
    \/ UpdateApiInfo
    \/ SetDefaultProfile
    \/ DeleteApiProfile

SpecProfiles == Init /\ [][NextProfiles]_vars

\* the profile commands with the dashboard preferences of the default profile
NextPrefs ==
    \/ SaveDashboardPreferences
    \/ DeleteApiProfile
    \/ SetDefaultProfile

SpecPrefs == Init /\ [][NextPrefs]_vars

\* the PIN commands on a storage that may fail, with the reads and restarts
NextFaults ==
    \/ Restart
    \/ GetApiInfo
    \/ AddApiProfile
    \/ VerifyPin
    \/ VerifyPinFault
    \/ UpdatePin
    \/ UpdatePinFault

SpecFaults == Init /\ [][NextFaults]_vars

\* the PIN commands with the arguments of update_pin on record
NextPin ==
    \/ Restart
    \/ VerifyPin
    \/ UpdatePinLogged
    \/ AddApiProfile

SpecPin == Init /\ [][NextPin]_vars

\* verify_pin on the main thread, one step per lock of conn its
\* complete_migration takes, interleaved with add_api_profile and
\* save_initial_config (taken as one step) on the async runtime
NextMigration ==
    \/ Restart
    \/ VerifyPinCheck
    \/ MigrationHead
    \/ MigrationSalt
    \/ MigrationCreate
    \/ MigrationRead
    \/ MigrationInsert
    \/ MigrationSwap
    \/ MigrationReturn
    \/ AddApiProfile
    \/ SaveInitialConfig

SpecMigration == Init /\ [][NextMigration]_vars

\* the commands that write api_info or dashboard_preferences, on either build
\* of SQLite
NextIntegrity ==
    \/ SaveInitialConfig
    \/ AddApiProfile
    \/ DeleteApiProfile
    \/ VerifyPin
    \/ SaveDashboardPreferences

SpecIntegrity == InitAnyBuild /\ [][NextIntegrity]_vars

\* saves whose arguments are kept, reads, and the commands that change the
\* cached PIN
NextRoundTrip ==
    \/ Restart
    \/ VerifyPin
    \/ UpdatePin
    \/ AddApiProfileLogged
    \/ GetApiInfo

SpecRoundTrip == Init /\ [][NextRoundTrip]_vars

\* update_pin on the main thread, one step per lock once the current PIN is
\* verified, interleaved with the profile reads of the async runtime
NextPinChange ==
    \/ UpdatePinRead
    \/ UpdatePinHash
    \/ UpdatePinCache
    \/ UpdatePinSave
    \/ UpdatePinReturn
    \/ GetDevices

SpecPinChange == Init /\ [][NextPinChange]_vars

\* the commands of the main thread (fn, one at a time) interleaved with those
\* of the async runtime (async fn); a step is what a command does under one
\* lock of conn
NextThreads ==
    \/ Restart
    \/ VerifyPinCheck
    \/ VerifyPinReturn
    \/ GetDevices
    \/ AddApiProfile
    \/ SaveInitialConfigHash
    \/ SaveInitialConfigInsert

SpecThreads == Init /\ [][NextThreads]_vars

----------------------------------------------------------------------------
\* Properties of the credential store

\* the store after the step
DBNext == [conn |-> conn', pin_cache |-> pin_cache', current_pin_key |-> current_pin_key']

DefaultRows(c) == {r \in c.api_info.rows : r.is_default}

\* the profile an encrypted row was saved from
Plain(r) ==
    ApiInfo(r.id, r.profile_name, r.encrypted_api_key.pt, r.encrypted_api_secret.pt,
            r.api_url, r.port, r.is_default)

\* what get_api_info returns for every stored profile
ReadAll(db) == UNION {get_api_info(db, r.profile_name).val : r \in db.conn.api_info.rows}

\* the PIN whose hash app_settings holds
PinVerifies(c, pin) == \E a \in c.app_settings : verify_password(a.password_hash, pin)

\* C1: after any sequence of profile saves, default switches and deletes, a
\* non-empty api_info has exactly one row with is_default set
C1_ExactlyOneDefault ==
    conn.api_info.rows # {} => Cardinality(DefaultRows(conn)) = 1

\* C2: get_api_info on an encrypted store whose session cache holds no PIN
\* returns Ok, and the profile it returns is a stored one with api_key and
\* api_secret blank
C2_BlankWithoutPin ==
    (op = "get_api_info" /\ conn.api_info.shape = "enc" /\ pin_cache = None)
        => /\ ret = "ok"
           /\ \A a \in out :
                /\ a.api_key = "" /\ a.api_secret = ""
                /\ \E r \in conn.api_info.rows : a.id = r.id /\ a.profile_name = r.profile_name

C2_Witness ==
    /\ op = "get_api_info" /\ conn.api_info.shape = "enc" /\ pin_cache = None
    /\ out # {}
    /\ \E r \in conn.api_info.rows : r.encrypted_api_key.pt # ""

\* C3: whenever app_settings holds a PIN hash, an existing api_info table is
\* in the encrypted shape
C3_EncryptedOncePinSet ==
    conn.app_settings # {} => conn.api_info.shape # "unenc"

\* C4: a successful update_pin on an encrypted store leaves a store on which
\* verify_pin(new_pin) returns true and every profile reads back, under the
\* new PIN, with the id, fields and secrets it was saved with
C4_UpdatePinKeepsProfiles ==
    [][(op' = "update_pin" /\ ret' = "ok" /\ conn.api_info.shape = "enc")
        => /\ verify_pin(DBNext, pin_cache', 1, <<"none">>).ret = "true"
           /\ ReadAll(DBNext) = {Plain(r) : r \in conn.api_info.rows}]_vars

\* C5: after an update_pin that failed with the hash already replaced, a
\* successful update_pin to the same new PIN leaves every profile decryptable
\* under that PIN to the secrets it was saved with
C5_RetryRecovers ==
    [][(/\ op = "update_pin" /\ ret = "err"
        /\ conn.api_info.shape = "enc"
        /\ pin_cache # None /\ ~PinVerifies(conn, pin_cache)
        /\ op' = "update_pin" /\ ret' = "ok"
        /\ PinVerifies(conn, pin_cache'))
        => ReadAll(DBNext) = {Plain(r) : r \in conn.api_info.rows}]_vars

\* C6: a verify_pin whose complete_migration call returned an error still
\* returns true and leaves the matching PIN in the session cache
C6_MigrationFailureKeepsResult ==
    (op = "verify_pin" /\ mig = "err")
        => (ret = "true" /\ pin_cache # None /\ PinVerifies(conn, pin_cache))

\* C7: verify_pin of a PIN that matches the stored hash returns true, never
\* an error, whatever the state of the store
C7_MatchingPinVerifies ==
    (op = "verify_pin" /\ ret # "false") => ret = "true"

\* C8: a verify_pin whose complete_migration call returned an error leaves
\* the plaintext api_info table in place with its rows unchanged
C8_FailedMigrationKeepsPlaintext ==
    [][(op' = "verify_pin" /\ mig' = "err")
        => (conn'.api_info.shape = "unenc" /\ conn'.api_info = conn.api_info)]_vars

\* C9: a migration run that no storage fault hits, on a plaintext store
\* whose api_info_new holds rows of an earlier failed run, returns Ok and
\* leaves api_info encrypted
C9_RerunCompletes ==
    [][(/\ op' = "verify_pin" /\ mig' # "none" /\ faults' = faults
        /\ conn.api_info.shape = "unenc" /\ conn.api_info_new.rows # {})
        => (mig' = "ok" /\ conn'.api_info.shape = "enc")]_vars

\* C10: a migration run on a store whose api_info is already encrypted, or
\* that has no api_info table, returns Ok and changes no table
C10_SecondRunNoOp ==
    [][(op' = "verify_pin" /\ mig' # "none" /\ conn.api_info.shape \in {"enc", "none"})
        => (mig' = "noop" /\ conn' = conn)]_vars

C10_Witness ==
    /\ op = "verify_pin" /\ mig = "noop" /\ ret = "true"
    /\ conn.api_info.shape = "enc" /\ conn.api_info.rows # {}

\* C11: delete_api_profile on a store with exactly one profile returns an
\* error and leaves the profile, its is_default flag and the preference rows
\* as they were
C11_LastProfileStays ==
    [][(op' = "delete_api_profile" /\ Cardinality(conn.api_info.rows) = 1)
        => (ret' = "err" /\ conn' = conn)]_vars

C11_Witness ==
    /\ op = "delete_api_profile" /\ ret = "err"
    /\ Cardinality(conn.api_info.rows) = 1
    /\ \E r \in conn.api_info.rows :
          r.is_default /\ \E d \in conn.dashboard_preferences : d.profile_id = r.id

\* C12: set_default_profile of a name that no profile carries returns an
\* error and leaves every table, so every is_default flag, as it was; of a
\* name that a profile carries it returns Ok
C12_UnknownNameRollsBack ==
    [][op' = "set_default_profile"
        => \E name \in ProfileNames :
              IF \A r \in conn.api_info.rows : r.profile_name # name
              THEN ret' = "err" /\ conn' = conn
              ELSE ret' = "ok" /\ \A r \in conn'.api_info.rows :
                                    r.is_default = (r.profile_name = name)]_vars

C12_Witness ==
    /\ op = "set_default_profile" /\ ret = "err"
    /\ Cardinality(conn.api_info.rows) = 1
    /\ Cardinality(DefaultRows(conn)) = 1

\* C13: delete_api_profile of an existing profile on a store with two or more
\* profiles returns Ok and removes that profile only; when the profile was
\* flagged default, exactly one of the remaining profiles is default afterwards
C13_DeleteDefaultPromotes ==
    [][(op' = "delete_api_profile" /\ Cardinality(conn.api_info.rows) >= 2)
        => \E name \in ProfileNames :
              LET hit == {r \in conn.api_info.rows : r.profile_name = name}
              IN  IF hit = {}
                  THEN ret' = "err" /\ conn' = conn
                  ELSE /\ ret' = "ok"
                       /\ {r.profile_name : r \in conn'.api_info.rows}
                            = {r.profile_name : r \in conn.api_info.rows \ hit}
                       /\ (\E r \in hit : r.is_default)
                            => Cardinality(DefaultRows(conn')) = 1]_vars

C13_Witness ==
    /\ op = "delete_api_profile" /\ ret = "ok"
    /\ \E a \in out : a.is_default
    /\ Cardinality(conn.api_info.rows) = 1
    /\ Cardinality(DefaultRows(conn)) = 1

\* C14: verify_pin of a PIN that does not match password_hash, or on a store
\* without app_settings row, returns false and leaves both PIN caches, the
\* derived key and every table as they were
C14_WrongPinChangesNothing ==
    [][op' = "verify_pin"
        => \E pin \in Pins :
              IF PinVerifies(conn, pin)
              THEN ret' # "false"
              ELSE /\ ret' = "false"
                   /\ conn' = conn /\ pin_cache' = pin_cache
                   /\ current_pin_key' = current_pin_key
                   /\ app_pin_cache' = app_pin_cache]_vars

C14_Witness ==
    /\ op = "verify_pin" /\ ret = "false"
    /\ conn.app_settings # {} /\ conn.api_info.rows # {}
    /\ pin_cache # None /\ PinVerifies(conn, pin_cache)

\* C15: when verify_pin has returned true and no other command of the main
\* thread has begun, the next read of a profile (get_devices) or save of a
\* profile (add_api_profile) finds the verified PIN in the cache of the store,
\* whatever the async runtime has in flight: the read decrypts with it, the
\* save encrypts with it and is not refused for a missing PIN
C15_VerifiedPinVisible ==
    [][(/\ op = "verify_pin" /\ ret = "true" /\ calls.verify_pin = {}
        /\ op' \in {"get_devices", "add_api_profile"})
        => /\ calls.verified \in Pins
           /\ pin_cache = calls.verified
           /\ (op' = "get_devices" /\ conn.api_info.shape = "enc")
                 => \A a \in out' : \E r \in conn.api_info.rows :
                                        a = Decrypted(r, calls.verified)
           /\ (op' = "add_api_profile" /\ conn.api_info.shape = "enc"
                                       /\ conn.app_settings # {})
                 => /\ ret' = "ok"
                    /\ \A r \in conn'.api_info.rows \ conn.api_info.rows :
                          /\ r.encrypted_api_key.key = Sha256(calls.verified)
                          /\ r.encrypted_api_secret.key = Sha256(calls.verified)]_vars

C15_Witness ==
    /\ op = "get_devices" /\ ret = "ok" /\ calls.followed
    /\ calls.save_initial_config # {}
    /\ conn.api_info.shape = "enc"
    /\ \E a \in out : a.api_key # "" /\ a.api_secret # ""

\* C16: update_pin with new_pin different from confirm_new_pin, or with a
\* current_pin that does not verify against password_hash, fails and leaves
\* password_hash, every profile and both PIN caches as they were
C16_RejectedUpdateChangesNothing ==
    [][(/\ op' = "update_pin"
        /\ \/ calls'.update_pin[2] # calls'.update_pin[3]
           \/ ~PinVerifies(conn, calls'.update_pin[1]))
        => /\ ret' = "err"
           /\ conn' = conn /\ pin_cache' = pin_cache
           /\ current_pin_key' = current_pin_key
           /\ app_pin_cache' = app_pin_cache]_vars

C16_Witness ==
    /\ op = "update_pin" /\ ret = "err"
    /\ calls.update_pin[2] = calls.update_pin[3]
    /\ ~PinVerifies(conn, calls.update_pin[1])
    /\ conn.api_info.shape = "enc" /\ conn.api_info.rows # {}
    /\ pin_cache # None /\ PinVerifies(conn, pin_cache)

\* C17: a save of a profile (add_api_profile, update_api_info) on a store with
\* the encrypted schema and no cached PIN is refused for the missing PIN, the
\* stored PIN hash being there, and no table changes
C17_SaveNeedsCachedPin ==
    [][(/\ op' \in {"add_api_profile", "update_api_info"}
        /\ conn.api_info.shape = "enc" /\ pin_cache = None)
        => /\ ret' = "err"
           /\ conn.app_settings # {}
           /\ conn' = conn /\ pin_cache' = None]_vars

C17_Witness ==
    /\ op = "add_api_profile" /\ ret = "err"
    /\ conn.api_info.shape = "enc" /\ conn.api_info.rows # {}
    /\ pin_cache = None

\* C18: a successful save of a profile (add_api_profile, update_api_info)
\* leaves every profile name that was stored on the id it had, the saved name
\* included, in the plaintext schema as in the encrypted one
C18_SaveKeepsId ==
    [][(op' \in {"add_api_profile", "update_api_info"} /\ ret' = "ok")
        => \A r \in conn.api_info.rows :
              \E q \in conn'.api_info.rows :
                  q.profile_name = r.profile_name /\ q.id = r.id]_vars

\* C19: on a store with the encrypted schema get_api_profiles returns every
\* stored profile with api_key and api_secret blank, with or without a cached
\* PIN, and no command other than the read of one profile (get_api_info)
\* returns a secret
C19_ListNeverDecrypts ==
    [][conn.api_info.shape = "enc"
        => /\ op' = "get_api_profiles"
                => /\ ret' = "ok"
                   /\ out' = {Blanked(r) : r \in conn.api_info.rows}
           /\ (\E a \in out' : a.api_key # "" \/ a.api_secret # "")
                => op' = "get_api_info"]_vars

C19_Witness ==
    /\ op = "get_api_profiles" /\ ret = "ok"
    /\ conn.api_info.shape = "enc" /\ Cardinality(out) = 2
    /\ pin_cache # None /\ PinVerifies(conn, pin_cache)
    /\ \A r \in conn.api_info.rows : Decrypted(r, pin_cache).api_key # ""
    /\ \A a \in out : a.api_key = "" /\ a.api_secret = ""

\* C20: after a successful save_initial_config, whatever api_info was before
\* (no table, a plaintext table with rows, an encrypted table), api_info has
\* the plaintext shape and holds exactly one row, which is the default
C20_InitialProfileIsSole ==
    [][(op' = "save_initial_config" /\ ret' = "ok")
        => /\ conn'.api_info.shape = "unenc"
           /\ Cardinality(conn'.api_info.rows) = 1
           /\ \A r \in conn'.api_info.rows : r.is_default]_vars

\* C21: the cache the store decrypts with is empty once clear_pin has run: a
\* get_api_info that follows clear_pin on an encrypted store finds no PIN
\* and returns its profile with api_key and api_secret blank
C21_ClearedCacheBlanks ==
    [][(/\ op = "clear_pin" /\ op' = "get_api_info"
        /\ conn.api_info.shape = "enc")
        => /\ pin_cache = None
           /\ \A a \in out' : a.api_key = "" /\ a.api_secret = ""]_vars

\* C22: no profile is lost to a migration: every profile the plaintext table
\* holds when complete_migration drops it, the ones add_api_profile saved on
\* another thread since the migration began included, is in the encrypted
\* api_info afterwards with its api_key and api_secret
C22_MigrationLosesNoSave ==
    [][(\E m \in calls.migration : m.at = "swap")
        /\ (\E m \in calls'.migration : m.at = "ok")
        => \A r \in conn.api_info.rows :
              \E q \in conn'.api_info.rows :
                  /\ q.profile_name = r.profile_name
                  /\ q.encrypted_api_key.pt = r.api_key
                  /\ q.encrypted_api_secret.pt = r.api_secret]_vars

\* C23: a read of the default profile on another thread while update_pin is
\* past its verification, a PIN being cached, returns the api_key and the
\* api_secret the profile was saved with, never blank ones
C23_ReadDuringPinChange ==
    [][(/\ calls.pin_change # {} /\ calls'.pin_change = calls.pin_change
        /\ op' = "get_devices"
        /\ conn.api_info.shape = "enc" /\ pin_cache # None)
        => \A a \in out' : \E r \in conn.api_info.rows :
              /\ a.id = r.id
              /\ a.api_key = r.encrypted_api_key.pt
              /\ a.api_secret = r.encrypted_api_secret.pt]_vars

\* the rows of an encrypted api_info whose secrets are under another PIN than
\* the cached one
ForeignRows(db) ==
    {r \in db.conn.api_info.rows :
        /\ r.encrypted_api_key.key # Sha256(db.pin_cache)
        /\ r.encrypted_api_secret.key # Sha256(db.pin_cache)}

\* C24: get_api_info of a profile whose fields were encrypted under a PIN other
\* than the cached one returns Ok with an empty api_key and an empty
\* api_secret for it, no error and no other plaintext
C24_WrongPinReadsBlank ==
    [][(/\ op' = "get_api_info"
        /\ conn.api_info.shape = "enc" /\ pin_cache # None)
        => /\ ret' = "ok"
           /\ \A a \in out' : \A r \in ForeignRows(DB) :
                 a.id = r.id => a.api_key = "" /\ a.api_secret = ""]_vars

C24_Witness ==
    /\ op = "get_api_info" /\ ret = "ok"
    /\ conn.api_info.shape = "enc" /\ pin_cache # None
    /\ \E a \in out : \E r \in ForeignRows(DB) :
          /\ a.id = r.id /\ a.api_key = "" /\ a.api_secret = ""
          /\ r.encrypted_api_key.pt # ""

\* decrypt_string on what encrypt_string made of s under the PIN K, with K
RoundTrip(s, K, nonce) ==
    \E e \in {encrypt_string(s, K, nonce)} :
        decrypt_string(e.ciphertext, e.nonce, K) = [ok |-> TRUE, plaintext |-> s]

\* C25: decrypt_string gives back every string encrypt_string encrypted under
\* the same PIN, and a get_api_info that follows a successful save of a
\* profile on an encrypted store, under the same cached PIN, returns the
\* api_key and the api_secret that were saved
C25_RoundTrip ==
    [][/\ \A s \in ApiKeys \cup ApiSecrets \cup {""}, K \in Pins, seed \in Seeds :
            RoundTrip(s, K, Nonce(seed, 1))
       /\ (/\ op = "add_api_profile" /\ ret = "ok" /\ op' = "get_api_info"
           /\ conn.api_info.shape = "enc")
           => \A c \in calls.saved :
                 \A g \in {get_api_info(DB, c.profile_name)} :
                     /\ g.ok /\ g.val # {}
                     /\ \A a \in g.val : a.api_key = c.api_key /\ a.api_secret = c.api_secret
                     /\ \A a \in out' : a.profile_name = c.profile_name
                           => a.api_key = c.api_key /\ a.api_secret = c.api_secret]_vars

C25_Witness ==
    /\ op = "get_api_info" /\ ret = "ok"
    /\ conn.api_info.shape = "enc" /\ pin_cache = "5678"
    /\ \E c \in calls.saved : \E a \in out :
          /\ a.profile_name = c.profile_name /\ a.profile_name # "main"
          /\ a.api_key = c.api_key /\ a.api_secret = c.api_secret
          /\ a.api_key # ""

\* C26: a complete_migration that returned Ok after moving the rows leaves an
\* encrypted api_info holding exactly the profiles of the plaintext table,
\* each with its id, profile_name, api_url, port and is_default and with
\* secrets that decrypt under the verified PIN to the former plaintext, and
\* no api_info_new
C26_MigrationKeepsProfiles ==
    [][(op' = "verify_pin" /\ mig' = "ok")
        => /\ conn'.api_info.shape = "enc"
           /\ ~conn'.api_info_new.exists
           /\ Cardinality(conn'.api_info.rows) = Cardinality(conn.api_info.rows)
           /\ {Decrypted(r, pin_cache') : r \in conn'.api_info.rows} = conn.api_info.rows]_vars

\* C27: a delete_api_profile that returns Ok removes the profile and exactly
\* the dashboard_preferences rows carrying its id, the rows of the other
\* profiles staying as they were; one that returns an error changes no table
C27_DeleteTakesOwnPrefs ==
    [][op' = "delete_api_profile"
        => IF ret' = "ok"
           THEN \E r \in conn.api_info.rows :
                   /\ \A q \in conn'.api_info.rows : q.id # r.id
                   /\ conn'.dashboard_preferences =
                          {d \in conn.dashboard_preferences : d.profile_id # r.id}
           ELSE conn' = conn]_vars

\* a profile was deleted and rows of another profile, saved after rows that
\* are gone, are still there
C27_Witness ==
    /\ op = "delete_api_profile" /\ ret = "ok"
    /\ \E a \in out : \A d \in conn.dashboard_preferences : d.profile_id # a.id
    /\ \E d \in conn.dashboard_preferences :
          /\ d.id > 1
          /\ \E r \in conn.api_info.rows : r.id = d.profile_id

\* C28: Database::new succeeds at every start of the process, whatever the
\* commands and restarts before it left in the data directory
C28_OpenSucceeds ==
    op = "new" => (ret = "ok" /\ opened)

\* C29: a PIN held by the session cache of the store verifies against the
\* password_hash the store holds
C29_CachedPinVerifies ==
    pin_cache # None => PinVerifies(conn, pin_cache)

\* C30: every dashboard_preferences row carries the id of a profile that
\* api_info holds
C30_PrefsReferToProfiles ==
    \A d \in conn.dashboard_preferences :
        \E r \in conn.api_info.rows : r.id = d.profile_id

====
